---- MODULE Spec2Model ----
(***************************************************************************)
(* Model of backend/app.py: the watsonx chat proxy.                        *)
(*                                                                         *)
(* State: the process-wide token_cache, the wall clock, and for every      *)
(* request handler its position in chat() / get_ibm_token() with its local *)
(* variables.  The identity service and the inference service are the      *)
(* environment: each network call draws its outcome from a small set.      *)
(*                                                                         *)
(* Python values are tagged tuples <<tag, payload>>, so that values of     *)
(* different Python types stay comparable.                                 *)
(***************************************************************************)
EXTENDS Integers, Sequences, FiniteSets, TLC

(***************************************************************************)
(* Bounds of the model.                                                    *)
(***************************************************************************)
MaxRequests == 2
MaxTime == 7200

Procs == {1, 2}

(***************************************************************************)
(* Python / JSON values.                                                   *)
(***************************************************************************)
None == <<"None">>
JStr(s) == <<"str", s>>
JNum(n) == <<"num", n>>
JList(l) == <<"list", l>>
JDict(d) == <<"dict", d>>
EmptyDict == JDict(<<>>)

Ok(v) == <<"ok", v>>
Raise(e) == <<"raise", e>>
IsOk(r) == r[1] = "ok"
Val(r) == r[2]
Exc(r) == r[2]

\* bool(v)
Truthy(v) ==
    CASE v[1] = "None" -> FALSE
      [] v[1] = "str" -> v[2] # ""
      [] v[1] = "num" -> v[2] # 0
      [] v[1] = "list" -> Len(v[2]) > 0
      [] v[1] = "dict" -> DOMAIN v[2] # {}
      [] OTHER -> TRUE

\* v[key] for a string key
GetItem(v, key) ==
    CASE v[1] = "dict" -> IF key \in DOMAIN v[2] THEN Ok(v[2][key]) ELSE Raise("KeyError")
      [] OTHER -> Raise("TypeError")

\* v[0]; the first character of a string is written "?"
GetFirst(v) ==
    CASE v[1] = "list" -> IF Len(v[2]) > 0 THEN Ok(v[2][1]) ELSE Raise("IndexError")
      [] v[1] = "str" -> IF v[2] # "" THEN Ok(JStr("?")) ELSE Raise("IndexError")
      [] v[1] = "dict" -> Raise("KeyError")
      [] OTHER -> Raise("TypeError")

\* v.get(key, default)
DictGet(v, key, default) ==
    CASE v[1] = "dict" -> Ok(IF key \in DOMAIN v[2] THEN v[2][key] ELSE default)
      [] OTHER -> Raise("AttributeError")

\* key in v; the strings of the model are whole words, so a substring is
\* the string itself
Contains(v, key) ==
    CASE v[1] = "dict" -> Ok(key \in DOMAIN v[2])
      [] v[1] = "list" -> Ok(\E i \in 1..Len(v[2]) : v[2][i] = JStr(key))
      [] v[1] = "str" -> Ok(v[2] = key)
      [] OTHER -> Raise("TypeError")

(***************************************************************************)
(* Response bodies the two services may send, and json.loads on them.      *)
(***************************************************************************)
IdentityBodies ==
    { "", "[]", "{}",
      "{\"access_token\":null}",
      "{\"access_token\":\"\"}",
      "{\"access_token\":\"tokA\"}",
      "{\"access_token\":\"tokB\"}" }

ErrorBodies ==
    { "", "<html>", "[]", "{}",
      "{\"errors\":[]}",
      "{\"errors\":[{\"message\":\"quota\"}]}" }

ReplyBodies ==
    { "", "[]", "null", "5", "\"s\"",
      "{\"choices\":[1]}",
      "{\"choices\":[{\"message\":null}]}",
      "{\"choices\":[]}",
      "{\"choices\":[{\"message\":{}}]}",
      "{\"choices\":[{\"message\":{\"content\":null}}]}",
      "{\"choices\":[{\"message\":{\"content\":\"hi\"}}]}" }

json_loads(text) ==
    CASE text = "[]" -> Ok(JList(<<>>))
      [] text = "{}" -> Ok(EmptyDict)
      [] text = "null" -> Ok(None)
      [] text = "5" -> Ok(JNum(5))
      [] text = "\"s\"" -> Ok(JStr("s"))
      [] text = "{\"access_token\":null}" -> Ok(JDict([access_token |-> None]))
      [] text = "{\"access_token\":\"\"}" -> Ok(JDict([access_token |-> JStr("")]))
      [] text = "{\"access_token\":\"tokA\"}" -> Ok(JDict([access_token |-> JStr("tokA")]))
      [] text = "{\"access_token\":\"tokB\"}" -> Ok(JDict([access_token |-> JStr("tokB")]))
      [] text = "{\"errors\":[]}" -> Ok(JDict([errors |-> JList(<<>>)]))
      [] text = "{\"errors\":[{\"message\":\"quota\"}]}" ->
            Ok(JDict([errors |-> JList(<<JDict([message |-> JStr("quota")])>>)]))
      [] text = "{\"choices\":[]}" -> Ok(JDict([choices |-> JList(<<>>)]))
      [] text = "{\"choices\":[1]}" -> Ok(JDict([choices |-> JList(<<JNum(1)>>)]))
      [] text = "{\"choices\":[{\"message\":null}]}" ->
            Ok(JDict([choices |-> JList(<<JDict([message |-> None])>>)]))
      [] text = "{\"choices\":[{\"message\":{}}]}" ->
            Ok(JDict([choices |-> JList(<<JDict([message |-> EmptyDict])>>)]))
      [] text = "{\"choices\":[{\"message\":{\"content\":null}}]}" ->
            Ok(JDict([choices |-> JList(<<JDict([message |-> JDict([content |-> None])])>>)]))
      [] text = "{\"choices\":[{\"message\":{\"content\":\"hi\"}}]}" ->
            Ok(JDict([choices |-> JList(<<JDict([message |-> JDict([content |-> JStr("hi")])])>>)]))
      [] OTHER -> Raise("JSONDecodeError")

(***************************************************************************)
(* requests: a call either fails at the network level or yields a          *)
(* Response.                                                               *)
(***************************************************************************)
NetworkFailure == [kind |-> "neterr", status_code |-> 0, text |-> ""]
HttpResponse(s, t) == [kind |-> "http", status_code |-> s, text |-> t]
NoResponse == [kind |-> "none", status_code |-> 0, text |-> ""]

\* Response.raise_for_status(): HTTPError for 4xx and 5xx only
raise_for_status(r) ==
    IF 400 <= r.status_code /\ r.status_code < 600 THEN Raise("HTTPError") ELSE Ok(None)

\* Response.json()
response_json(r) == json_loads(r.text)

IdentityResponses ==
    {NetworkFailure}
    \cup {HttpResponse(s, "") : s \in {400, 503}}
    \cup {HttpResponse(200, b) : b \in IdentityBodies}

InferenceResponses ==
    {NetworkFailure}
    \cup {HttpResponse(s, b) : s \in {401, 500}, b \in ErrorBodies}
    \cup {HttpResponse(200, b) : b \in ReplyBodies}
    \cup {HttpResponse(304, b) : b \in {"", "{}"}}

(***************************************************************************)
(* Exception classes.  requests.exceptions.JSONDecodeError derives from    *)
(* RequestException from requests 2.27 on and only from ValueError before; *)
(* json_error_base records which requests the build runs on.               *)
(***************************************************************************)
JsonErrorBases == {"RequestException", "ValueError"}

\* HTTPError taken for no RequestException
IsRequestException_network_only(e, base) ==
    \/ e = "ConnectionError"
    \/ e = "JSONDecodeError" /\ base = "RequestException"

IsRequestException(e, base) ==
    \/ e \in {"ConnectionError", "HTTPError"}
    \/ e = "JSONDecodeError" /\ base = "RequestException"

HTTPException(code, detail) ==
    [type |-> "HTTPException", status_code |-> code, detail |-> detail,
     response |-> None, status |-> "", api_ready |-> FALSE]
ChatResponse(text) ==
    [type |-> "ChatResponse", status_code |-> 200, detail |-> <<>>,
     response |-> text, status |-> "success", api_ready |-> FALSE]
\* the dict health_check returns
HealthResponse(status, api_ready) ==
    [type |-> "dict", status_code |-> 200, detail |-> <<>>,
     response |-> None, status |-> status, api_ready |-> api_ready]
NoResult ==
    [type |-> "none", status_code |-> 0, detail |-> <<>>, response |-> None, status |-> "",
     api_ready |-> FALSE]

(***************************************************************************)
(* Configuration.                                                          *)
(***************************************************************************)
TOKEN_TTL == 3600
STOP_AFTER_ATTEMPT == 3
WAIT_MULTIPLIER == 1
WAIT_MIN == 4
WAIT_MAX == 10
REGULAR_ENDPOINT == "ai_service"
STREAMING_ENDPOINT == "ai_service_stream"
PROJECT_ID == "your_PROJECT_ID"

Max(a, b) == IF a >= b THEN a ELSE b
Min(a, b) == IF a <= b THEN a ELSE b

\* tenacity wait_exponential(multiplier, min, max) after attempt number n
wait_exponential(n) ==
    Max(Max(0, WAIT_MIN), Min(WAIT_MULTIPLIER * 2 ^ (n - 1), WAIT_MAX))

(***************************************************************************)
(* get_ibm_token, one attempt after a cache miss: lines 73-88 up to the    *)
(* value assigned to token_cache["token"].                                 *)
(***************************************************************************)
token_request(r) ==
    IF r.kind = "neterr" THEN Raise("ConnectionError")
    ELSE IF ~IsOk(raise_for_status(r)) THEN Raise("HTTPError")
    ELSE LET token_data == response_json(r) IN
         IF ~IsOk(token_data) THEN token_data
         ELSE GetItem(Val(token_data), "access_token")

\* the except clauses of get_ibm_token, lines 94-107
token_error(e, base) ==
    IF IsRequestException(e, base)
    THEN HTTPException(503, <<"Authentication service unavailable">>)
    ELSE HTTPException(500, <<"Authentication failed">>)

\* the cache test with >= for >
cache_valid_nonstrict(cache, t) == Truthy(cache.token) /\ cache.expires_at >= t

\* no cache test: every call asks the identity service
cache_valid_never(cache, t) == FALSE

\* the cache test of line 70
cache_valid(cache, t) == Truthy(cache.token) /\ cache.expires_at > t

\* line 90 without the lifetime
expiry_unset(t) == t

\* line 90: time.time() + 3600
expiry(t) == t + TOKEN_TTL

\* the 401 branch resetting the whole cache
invalidate_expiry_reset(cache) == [token |-> None, expires_at |-> 0]

\* the 401 branch without line 192
invalidate_skipped(cache) == cache

\* line 192: token_cache["token"] = None
invalidate(cache) == [cache EXCEPT !.token = None]

\* stop_after_attempt off by one
should_stop_late(attempt_number) == attempt_number > STOP_AFTER_ATTEMPT

\* stop_after_attempt(3)
should_stop(attempt_number) == attempt_number >= STOP_AFTER_ATTEMPT

\* the except clause of line 169 re-raising what it caught
auth_failure_reraised(e) == e

\* lines 169-174: whatever get_ibm_token raised becomes a 401
auth_failure(e) == HTTPException(401, <<"Authentication failed">>)

(***************************************************************************)
(* get_watsonx_payload and format_response.                                *)
(***************************************************************************)
get_watsonx_payload(message) ==
    [messages |-> <<[content |-> message, role |-> "user"]>>,
     project_id |-> PROJECT_ID,
     parameters |-> [max_new_tokens |-> 200, temperature |-> "0.7",
                     top_p |-> "0.9", repetition_penalty |-> "1.1"]]

PARSE_FAILED == JStr("Received response but couldn't parse it")
NO_CONTENT == JStr("No response content")
\* str(data)
StrOf(data) == <<"repr", data>>
IsStr(v) == v[1] \in {"str", "repr"}

format_response(data) ==
    LET has == Contains(data, "choices") IN
    IF ~IsOk(has) THEN PARSE_FAILED
    ELSE IF ~Val(has) THEN StrOf(data)
    ELSE LET choices == GetItem(data, "choices") IN
         IF ~IsOk(choices) THEN PARSE_FAILED
         ELSE IF ~Truthy(Val(choices)) THEN StrOf(data)
         ELSE LET first == GetFirst(Val(choices)) IN
              IF ~IsOk(first) THEN PARSE_FAILED
              ELSE LET msg == DictGet(Val(first), "message", EmptyDict) IN
                   IF ~IsOk(msg) THEN PARSE_FAILED
                   ELSE LET content == DictGet(Val(msg), "content", NO_CONTENT) IN
                        IF ~IsOk(content) THEN PARSE_FAILED ELSE Val(content)

(***************************************************************************)
(* chat, lines 202-251: what the handler makes of the last dispatch's      *)
(* Response.                                                               *)
(***************************************************************************)
\* no outer except clause: the exception leaves chat as it is
INTERNAL_ERROR_uncaught ==
    [type |-> "AttributeError", status_code |-> 0, detail |-> <<>>,
     response |-> None, status |-> "", api_ready |-> FALSE]

INTERNAL_ERROR == HTTPException(500, <<"Internal server error">>)

\* error_data.get('errors', [{}])[0].get('message', 'Unknown error')
error_message(error_data) ==
    LET errors == DictGet(error_data, "errors", JList(<<EmptyDict>>)) IN
    IF ~IsOk(errors) THEN errors
    ELSE LET first == GetFirst(Val(errors)) IN
         IF ~IsOk(first) THEN first
         ELSE DictGet(Val(first), "message", JStr("Unknown error"))

\* the except requests.exceptions.HTTPError clause, lines 204-217
http_error_result(r) ==
    LET error_detail == <<"HTTP Error: ", JNum(r.status_code)>> IN
    IF r.text = "" THEN HTTPException(502, error_detail)
    ELSE LET error_data == response_json(r) IN
         IF ~IsOk(error_data)
         THEN HTTPException(502, error_detail \o <<" - ", JStr(r.text)>>)
         ELSE LET m == error_message(Val(error_data)) IN
              IF IsOk(m)
              THEN HTTPException(502, error_detail \o <<" - ", Val(m)>>)
              ELSE INTERNAL_ERROR

\* Process response, lines 226-242; ChatResponse(response=...) rejects what
\* is no str with a ValidationError, which is a ValueError
process_response(r) ==
    LET data == response_json(r) IN
    IF ~IsOk(data) THEN HTTPException(502, <<"Invalid response from service">>)
    ELSE LET formatted_response == format_response(Val(data)) IN
         IF IsStr(formatted_response)
         THEN ChatResponse(formatted_response)
         ELSE HTTPException(502, <<"Invalid response from service">>)

\* chat without the except RequestException clause of line 218
handle_response_unguarded(r) ==
    IF r.kind = "neterr" THEN INTERNAL_ERROR
    ELSE IF ~IsOk(raise_for_status(r)) THEN http_error_result(r)
    ELSE process_response(r)

handle_response(r) ==
    IF r.kind = "neterr"
    THEN HTTPException(503, <<"Service unavailable">>)
    ELSE IF ~IsOk(raise_for_status(r)) THEN http_error_result(r)
    ELSE process_response(r)

(***************************************************************************)
(* Messages: strings as sequences of characters.                           *)
(***************************************************************************)
Whitespace == {" ", "\t", "\n"}
Messages == { <<>>, <<" ", "\t">>, <<" ", "h", " ", "i", "\n">> }

RECURSIVE lstrip(_)
lstrip(s) == IF s # <<>> /\ Head(s) \in Whitespace THEN lstrip(Tail(s)) ELSE s
RECURSIVE rstrip(_)
rstrip(s) ==
    IF s # <<>> /\ s[Len(s)] \in Whitespace THEN rstrip(SubSeq(s, 1, Len(s) - 1)) ELSE s
\* validation without strip(): only the empty message is rejected
strip_skipped(s) == s
strip(s) == rstrip(lstrip(s))

(***************************************************************************)
(* State.                                                                  *)
(***************************************************************************)
VARIABLES
    token_cache,      \* the module-level dict: token, expires_at
    now,              \* time.time()
    json_error_base,  \* base class of requests' JSONDecodeError in this build
    refresh,          \* history: the token and the time of the last write of expires_at
    nreq,             \* requests accepted so far
    pc,               \* position of every handler
    request,          \* the ChatMessage of the handler: message, stream
    token,            \* chat's local token
    headers,          \* chat's Authorization header
    response,         \* chat's local response, while it is still read
    result,           \* what the handler hands to its caller
    acq,              \* the running get_ibm_token call
    dispatches        \* history: the inference dispatches of the running request

vars == <<token_cache, now, json_error_base, refresh, nreq, pc, request, token, headers,
          response, result, acq, dispatches>>

StartTime == 1

NoRequest == [message |-> <<>>, stream |-> FALSE]
\* a get_ibm_token call: who called, the attempt running, how it ended, and
\* its history: identity requests made, whether the last cache test hit,
\* the exception of the last failed attempt, the token the call stored, the
\* seconds slept between attempts, and token_cache as the call found it,
\* kept while no attempt of the call has stored a token
NoCall == [caller |-> "", attempt_number |-> 0, outcome |-> "", value |-> None,
           error |-> NoResult, posts |-> 0, served |-> FALSE, exc |-> "",
           stored |-> None, slept |-> 0, entry |-> [token |-> None, expires_at |-> 0]]
NewCall(caller, cache) ==
    [NoCall EXCEPT !.caller = caller, !.attempt_number = 1, !.entry = cache]
Bearer(tok) == <<"Bearer ", tok>>
NoHeader == <<>>

Init ==
    /\ token_cache = [token |-> None, expires_at |-> 0]
    /\ now = StartTime
    /\ json_error_base \in JsonErrorBases
    /\ refresh = [token |-> None, at |-> 0]
    /\ nreq = 0
    /\ pc = [p \in Procs |-> "idle"]
    /\ request = [p \in Procs |-> NoRequest]
    /\ token = [p \in Procs |-> None]
    /\ headers = [p \in Procs |-> NoHeader]
    /\ response = [p \in Procs |-> NoResponse]
    /\ result = [p \in Procs |-> NoResult]
    /\ acq = [p \in Procs |-> NoCall]
    /\ dispatches = [p \in Procs |-> <<>>]

(***************************************************************************)
(* The clock is the environment's: it may advance between any two steps,   *)
(* and the model counts it in steps of one token lifetime.  The seconds    *)
(* slept between attempts are kept with the call (acq.slept).              *)
(***************************************************************************)
Tick ==
    /\ now + TOKEN_TTL <= MaxTime
    /\ now' = now + TOKEN_TTL
    /\ UNCHANGED <<token_cache, json_error_base, refresh, nreq, pc, request, token, headers,
                   response, result, acq, dispatches>>

(***************************************************************************)
(* get_ibm_token.                                                          *)
(***************************************************************************)
\* line 70-71: the cache test; a hit returns the cached token
AcqLookup(p) ==
    /\ pc[p] = "acq_lookup"
    /\ IF cache_valid(token_cache, now)
       THEN /\ acq' = [acq EXCEPT ![p].outcome = "returned",
                                  ![p].value = token_cache.token,
                                  ![p].served = TRUE]
            /\ pc' = [pc EXCEPT ![p] = "acq_done"]
       ELSE /\ acq' = [acq EXCEPT ![p].served = FALSE]
            /\ pc' = [pc EXCEPT ![p] = "acq_post"]
    /\ UNCHANGED <<token_cache, now, json_error_base, refresh, nreq, request, token, headers,
                   response, result, dispatches>>

\* lines 73-88 and 94-107: the identity request answers; the token is stored
\* or the attempt fails with an HTTPException
AcqPostAnswered(p, r) ==
    /\ pc[p] = "acq_post"
    /\ LET out == token_request(r) IN
       IF IsOk(out)
       THEN /\ token_cache' = [token_cache EXCEPT !.token = Val(out)]
            /\ acq' = [acq EXCEPT ![p].posts = @ + 1, ![p].stored = Val(out),
                                  ![p].exc = "", ![p].entry = NoCall.entry]
            /\ pc' = [pc EXCEPT ![p] = "acq_expiry"]
       ELSE /\ acq' = [acq EXCEPT ![p].posts = @ + 1, ![p].exc = Exc(out),
                                  ![p].error = token_error(Exc(out), json_error_base)]
            /\ pc' = [pc EXCEPT ![p] = "acq_failed"]
            /\ UNCHANGED token_cache
    /\ UNCHANGED <<now, json_error_base, refresh, nreq, request, token, headers, response,
                   result, dispatches>>

AcqPost(p) == \E r \in IdentityResponses : AcqPostAnswered(p, r)

\* line 90
AcqExpiry(p) ==
    /\ pc[p] = "acq_expiry"
    /\ token_cache' = [token_cache EXCEPT !.expires_at = expiry(now)]
    /\ refresh' = [token |-> acq[p].stored, at |-> now]
    /\ pc' = [pc EXCEPT ![p] = "acq_return"]
    /\ UNCHANGED <<now, json_error_base, nreq, request, token, headers, response, result,
                   acq, dispatches>>

\* line 92
AcqReturn(p) ==
    /\ pc[p] = "acq_return"
    /\ acq' = [acq EXCEPT ![p].outcome = "returned", ![p].value = token_cache.token]
    /\ pc' = [pc EXCEPT ![p] = "acq_done"]
    /\ UNCHANGED <<token_cache, now, json_error_base, refresh, nreq, request, token, headers,
                   response, result, dispatches>>

\* the @retry decorator, lines 61-65: after a failed attempt, sleep and call
\* again, or re-raise the last exception after the third attempt
AcqRetry(p) ==
    /\ pc[p] = "acq_failed"
    /\ IF should_stop(acq[p].attempt_number)
       THEN /\ acq' = [acq EXCEPT ![p].outcome = "raised"]
            /\ pc' = [pc EXCEPT ![p] = "acq_done"]
       ELSE /\ acq' = [acq EXCEPT ![p].attempt_number = @ + 1,
                                  ![p].slept = @ + wait_exponential(acq[p].attempt_number)]
            /\ pc' = [pc EXCEPT ![p] = "acq_lookup"]
    /\ UNCHANGED <<token_cache, now, json_error_base, refresh, nreq, request, token, headers,
                   response, result, dispatches>>

(***************************************************************************)
(* chat.                                                                   *)
(***************************************************************************)
\* line 178 without the stream test
Endpoint_regular_only(req) == REGULAR_ENDPOINT

\* line 178
Endpoint(req) == IF req.stream THEN STREAMING_ENDPOINT ELSE REGULAR_ENDPOINT

\* what a dispatch sent, and the status line of the answer
Dispatched(p, r) ==
    [authorization |-> headers[p], endpoint |-> Endpoint(request[p]),
     payload |-> get_watsonx_payload(request[p].message),
     kind |-> r.kind, status_code |-> r.status_code]

\* lines 153-159: a request arrives and is validated
ChatStartWith(p, m, s) ==
    /\ pc[p] = "idle"
    /\ nreq < MaxRequests
    /\ nreq' = nreq + 1
    /\ request' = [request EXCEPT ![p] = [message |-> m, stream |-> s]]
    /\ IF strip(m) = <<>>
       THEN /\ result' = [result EXCEPT ![p] =
                             HTTPException(400, <<"Message cannot be empty">>)]
            /\ pc' = [pc EXCEPT ![p] = "done"]
            /\ UNCHANGED acq
       ELSE /\ acq' = [acq EXCEPT ![p] = NewCall("auth", token_cache)]
            /\ pc' = [pc EXCEPT ![p] = "acq_lookup"]
            /\ UNCHANGED result
    /\ UNCHANGED <<token_cache, now, json_error_base, refresh, token, headers, response,
                   dispatches>>

ChatStart(p) == \E m \in Messages, s \in BOOLEAN : ChatStartWith(p, m, s)

\* lines 162-174: the first get_ibm_token call is over
ChatAuthenticate(p) ==
    /\ pc[p] = "acq_done"
    /\ acq[p].caller = "auth"
    /\ IF acq[p].outcome = "returned"
       THEN /\ token' = [token EXCEPT ![p] = acq[p].value]
            /\ headers' = [headers EXCEPT ![p] = Bearer(acq[p].value)]
            /\ pc' = [pc EXCEPT ![p] = "dispatch"]
            /\ UNCHANGED result
       ELSE /\ result' = [result EXCEPT ![p] = auth_failure(acq[p].error)]
            /\ pc' = [pc EXCEPT ![p] = "done"]
            /\ UNCHANGED <<token, headers>>
    /\ UNCHANGED <<token_cache, now, json_error_base, refresh, nreq, request, response, acq,
                   dispatches>>

\* lines 183-192 and 202-251: the first dispatch is answered; a 401 clears the
\* cached token and starts the second get_ibm_token call
ChatDispatchAnswered(p, r) ==
    /\ pc[p] = "dispatch"
    /\ dispatches' = [dispatches EXCEPT ![p] = Append(@, Dispatched(p, r))]
    /\ IF r.kind = "http" /\ r.status_code = 401
       THEN /\ token_cache' = invalidate(token_cache)
            /\ acq' = [acq EXCEPT ![p] = NewCall("retry", invalidate(token_cache))]
            /\ pc' = [pc EXCEPT ![p] = "acq_lookup"]
            /\ UNCHANGED <<response, result>>
       ELSE /\ response' = [response EXCEPT ![p] = IF r.kind = "http" THEN r ELSE @]
            /\ result' = [result EXCEPT ![p] = handle_response(r)]
            /\ pc' = [pc EXCEPT ![p] = "done"]
            /\ UNCHANGED <<token_cache, acq>>
    /\ UNCHANGED <<now, json_error_base, refresh, nreq, request, token, headers>>

ChatDispatch(p) == \E r \in InferenceResponses : ChatDispatchAnswered(p, r)

\* lines 193-194 and 244-245: the second get_ibm_token call is over; its
\* HTTPException passes the except clauses of lines 204 and 218 and is
\* re-raised by line 245
ChatReauthenticate(p) ==
    /\ pc[p] = "acq_done"
    /\ acq[p].caller = "retry"
    /\ IF acq[p].outcome = "returned"
       THEN /\ token' = [token EXCEPT ![p] = acq[p].value]
            /\ headers' = [headers EXCEPT ![p] = Bearer(acq[p].value)]
            /\ pc' = [pc EXCEPT ![p] = "redispatch"]
            /\ UNCHANGED result
       ELSE /\ result' = [result EXCEPT ![p] = acq[p].error]
            /\ pc' = [pc EXCEPT ![p] = "done"]
            /\ UNCHANGED <<token, headers>>
    /\ UNCHANGED <<token_cache, now, json_error_base, refresh, nreq, request, response, acq,
                   dispatches>>

\* lines 195-251: the retry dispatch is answered
ChatRedispatchAnswered(p, r) ==
    /\ pc[p] = "redispatch"
    /\ dispatches' = [dispatches EXCEPT ![p] = Append(@, Dispatched(p, r))]
    /\ response' = [response EXCEPT ![p] = IF r.kind = "http" THEN r ELSE @]
    /\ result' = [result EXCEPT ![p] = handle_response(r)]
    /\ pc' = [pc EXCEPT ![p] = "done"]
    /\ UNCHANGED <<token_cache, now, json_error_base, refresh, nreq, request, token,
                   headers, acq>>

ChatRedispatch(p) == \E r \in InferenceResponses : ChatRedispatchAnswered(p, r)

\* the framework sends the result; the handler's frame is gone
ChatReturn(p) ==
    /\ pc[p] = "done"
    /\ pc' = [pc EXCEPT ![p] = "idle"]
    /\ request' = [request EXCEPT ![p] = NoRequest]
    /\ token' = [token EXCEPT ![p] = None]
    /\ headers' = [headers EXCEPT ![p] = NoHeader]
    /\ response' = [response EXCEPT ![p] = NoResponse]
    /\ result' = [result EXCEPT ![p] = NoResult]
    /\ acq' = [acq EXCEPT ![p] = NoCall]
    /\ dispatches' = [dispatches EXCEPT ![p] = <<>>]
    /\ UNCHANGED <<token_cache, now, json_error_base, refresh, nreq>>

(***************************************************************************)
(* health_check.                                                           *)
(***************************************************************************)
\* lines 137-142: a health request arrives and calls get_ibm_token
HealthStart(p) ==
    /\ pc[p] = "idle"
    /\ nreq < MaxRequests
    /\ nreq' = nreq + 1
    /\ acq' = [acq EXCEPT ![p] = NewCall("health", token_cache)]
    /\ pc' = [pc EXCEPT ![p] = "acq_lookup"]
    /\ UNCHANGED <<token_cache, now, json_error_base, refresh, request, token, headers,
                   response, result, dispatches>>

\* lines 143-148: the call is over; api_ready is bool(token)
HealthCheck(p) ==
    /\ pc[p] = "acq_done"
    /\ acq[p].caller = "health"
    /\ result' = [result EXCEPT ![p] =
                     IF acq[p].outcome = "returned"
                     THEN HealthResponse("healthy", Truthy(acq[p].value))
                     ELSE HealthResponse("unhealthy", FALSE)]
    /\ pc' = [pc EXCEPT ![p] = "health_done"]
    /\ UNCHANGED <<token_cache, now, json_error_base, refresh, nreq, request, token,
                   headers, response, acq, dispatches>>

\* the framework sends the dict; the handler's frame is gone
HealthReturn(p) ==
    /\ pc[p] = "health_done"
    /\ pc' = [pc EXCEPT ![p] = "idle"]
    /\ result' = [result EXCEPT ![p] = NoResult]
    /\ acq' = [acq EXCEPT ![p] = NoCall]
    /\ UNCHANGED <<token_cache, now, json_error_base, refresh, nreq, request, token,
                   headers, response, dispatches>>

(***************************************************************************)
(* The specification: one request at a time (a single event loop runs the  *)
(* handlers, which never await).                                           *)
(***************************************************************************)
AllIdle == \A q \in Procs : pc[q] = "idle"

Accept(p) == AllIdle /\ ChatStart(p)
AcceptHealth(p) == AllIdle /\ HealthStart(p)

Next ==
    \/ Tick
    \/ \E p \in Procs :
          \/ Accept(p)
          \/ AcqLookup(p)
          \/ AcqPost(p)
          \/ AcqExpiry(p)
          \/ AcqReturn(p)
          \/ AcqRetry(p)
          \/ ChatAuthenticate(p)
          \/ ChatDispatch(p)
          \/ ChatReauthenticate(p)
          \/ ChatRedispatch(p)
          \/ ChatReturn(p)
          \/ AcceptHealth(p)
          \/ HealthCheck(p)
          \/ HealthReturn(p)

Spec == Init /\ [][Next]_vars

TypeOK ==
    /\ token_cache.expires_at \in Nat
    /\ now \in StartTime..MaxTime
    /\ nreq \in 0..MaxRequests
    /\ \A p \in Procs :
          /\ pc[p] \in {"idle", "acq_lookup", "acq_post", "acq_expiry", "acq_return",
                        "acq_failed", "acq_done", "dispatch", "redispatch", "done",
                        "health_done"}
          /\ acq[p].attempt_number \in 0..STOP_AFTER_ATTEMPT
          /\ Len(dispatches[p]) <= 2

(***************************************************************************)
(* Properties.                                                             *)
(***************************************************************************)

\* C1: two consecutive 401 responses end the request with UpstreamError
\* (502) after exactly two dispatches; no request dispatches more than
\* twice, and a second dispatch happens only after a 401 on the first.
C1_TwoUnauthorizedYieldUpstreamError ==
    \A p \in Procs :
        /\ Len(dispatches[p]) <= 2
        /\ Len(dispatches[p]) = 2 => dispatches[p][1].status_code = 401
        /\ ( /\ pc[p] = "done"
             /\ Len(dispatches[p]) = 2
             /\ dispatches[p][2].status_code = 401 )
           => ( /\ result[p].type = "HTTPException"
                /\ result[p].status_code = 502 )

\* C2 as stated: whenever a dispatch is answered 401, the first dispatch
\* and the retry dispatch alike, the cached token is cleared.
C2_EveryUnauthorizedClearsToken ==
    \A p \in Procs :
        ( /\ dispatches[p] # <<>>
          /\ dispatches[p][Len(dispatches[p])].status_code = 401
          /\ \/ pc[p] = "done"
             \/ pc[p] = "acq_lookup" /\ acq[p].attempt_number = 1 )
        => token_cache.token = None

\* C2 amended: a 401 on the first dispatch of a request clears the cached
\* token, and the get_ibm_token call that follows misses the cache and asks
\* the identity service; a 401 on the retry dispatch clears nothing, the
\* token acquired for the retry stays in the cache.
C2_FirstUnauthorizedClearsToken ==
    \A p \in Procs :
        /\ ( /\ acq[p].caller = "retry"
             /\ acq[p].posts = 0
             /\ pc[p] \in {"acq_lookup", "acq_post"} )
           => ( /\ dispatches[p][1].status_code = 401
                /\ token_cache.token = None )
        /\ (acq[p].caller = "retry" /\ pc[p] = "acq_done")
           => (~acq[p].served /\ acq[p].posts >= 1)
        /\ (pc[p] = "done" /\ Len(dispatches[p]) = 2)
           => ( /\ token_cache.token = acq[p].stored
                /\ dispatches[p][2].authorization = Bearer(token_cache.token) )

\* C2 witness: the retry dispatch was answered 401 and the rejected token
\* is still cached and still valid.
C2_Witness ==
    \E p \in Procs :
        /\ pc[p] = "done"
        /\ Len(dispatches[p]) = 2
        /\ dispatches[p][2].status_code = 401
        /\ token_cache.token = JStr("tokA")
        /\ token_cache.expires_at > now

\* C3: a get_ibm_token call makes at most three identity requests; when the
\* cache misses, every attempt makes one; a call that succeeds on the third
\* attempt returns the token of that response; a call whose three attempts
\* fail raises the HTTPException of the last attempt, which is 503 when the
\* identity endpoint failed (no answer, or an error status).
C3_AtMostThreeAttempts ==
    \A p \in Procs :
        /\ acq[p].posts <= 3
        /\ acq[p].attempt_number <= 3
        /\ (pc[p] = "acq_done" /\ acq[p].outcome = "returned" /\ ~acq[p].served)
           => ( /\ acq[p].posts = acq[p].attempt_number
                /\ acq[p].value = acq[p].stored
                /\ token_cache.token = acq[p].stored )
        /\ (pc[p] = "acq_done" /\ acq[p].outcome = "raised")
           => ( /\ acq[p].posts = 3
                /\ acq[p].attempt_number = 3
                /\ acq[p].error.type = "HTTPException"
                /\ acq[p].error.status_code \in {500, 503}
                /\ acq[p].exc \in {"ConnectionError", "HTTPError"}
                   => acq[p].error.status_code = 503
                /\ acq[p].exc \in {"KeyError", "TypeError"}
                   => acq[p].error.status_code = 500 )

\* C3 witness: two attempts failed and the third one returned its token.
C3_Witness ==
    \E p \in Procs :
        /\ pc[p] = "acq_done"
        /\ acq[p].outcome = "returned"
        /\ acq[p].posts = 3
        /\ acq[p].value = JStr("tokB")

\* C4: the cache test serves the cached token exactly when the token is
\* non-empty and expires_at is strictly greater than the current time, and
\* the test that follows an invalidation never serves.
C4_CacheValidity ==
    [][\A p \in Procs :
          (pc[p] = "acq_lookup" /\ pc'[p] # "acq_lookup")
          => /\ acq'[p].served
                <=> ( /\ token_cache.token \notin {None, JStr("")}
                      /\ token_cache.expires_at > now )
             /\ acq'[p].served
                => (pc'[p] = "acq_done" /\ acq'[p].value = token_cache.token)
             /\ ~acq'[p].served => pc'[p] = "acq_post"
             /\ token_cache.expires_at <= now => ~acq'[p].served
             /\ (acq[p].caller = "retry" /\ acq[p].attempt_number = 1)
                => ~acq'[p].served
      ]_vars

\* C4 witness: a non-empty token whose expires_at equals the current time
\* was not served.
C4_Witness ==
    \E p \in Procs :
        /\ pc[p] = "acq_post"
        /\ ~acq[p].served
        /\ token_cache.token = JStr("tokA")
        /\ token_cache.expires_at = now

(***************************************************************************)
(* Every network call has a timeout and every sleep ends, so a handler     *)
(* that can take a step eventually takes it.                               *)
(***************************************************************************)
Step(p) ==
    \/ AcqLookup(p)
    \/ AcqPost(p)
    \/ AcqExpiry(p)
    \/ AcqReturn(p)
    \/ AcqRetry(p)
    \/ ChatAuthenticate(p)
    \/ ChatDispatch(p)
    \/ ChatReauthenticate(p)
    \/ ChatRedispatch(p)
    \/ HealthCheck(p)

FairSpec == Spec /\ \A p \in Procs : WF_vars(Step(p))

\* C5: every chat request ends, and it ends with a success result of status
\* "success" or with an HTTPException of status 400, 401, 502, 503 or 500;
\* a success result is returned only when the acquisition returned and the
\* last dispatch was answered, without an error status, with a body that
\* parses as JSON.
C5_TaxonomyClosed ==
    /\ [](\A p \in Procs :
            /\ pc[p] \notin {"done", "health_done"} => result[p] = NoResult
            /\ pc[p] = "done"
               => \/ /\ result[p].type = "HTTPException"
                     /\ result[p].status_code \in {400, 401, 502, 503, 500}
                     /\ result[p].status = ""
                  \/ /\ result[p].type = "ChatResponse"
                     /\ result[p].status = "success"
                     /\ result[p].response[1] \in {"str", "repr"}
                     /\ acq[p].outcome = "returned"
                     /\ dispatches[p] # <<>>
                     /\ dispatches[p][Len(dispatches[p])].kind = "http"
                     /\ response[p].kind = "http"
                     /\ response[p].status_code \notin 400..599
                     /\ json_loads(response[p].text)[1] = "ok")
    /\ \A p \in Procs :
          (pc[p] # "idle" /\ acq[p].caller # "health") ~> (pc[p] = "done")

\* C5 witness: a request ended with InternalError at the outer boundary.
C5_Witness ==
    \E p \in Procs :
        /\ pc[p] = "done"
        /\ result[p] = HTTPException(500, <<"Internal server error">>)

\* C6: a request whose last dispatch is answered with a non-2xx status ends
\* with UpstreamError (502) whose detail carries the upstream status,
\* whatever the body is.
C6_NonSuccessStatusYieldsUpstreamError ==
    \A p \in Procs :
        ( /\ pc[p] = "done"
          /\ dispatches[p] # <<>>
          /\ dispatches[p][Len(dispatches[p])].kind = "http"
          /\ response[p].status_code \notin 200..299 )
        => ( /\ result[p].type = "HTTPException"
             /\ result[p].status_code = 502
             /\ Len(result[p].detail) >= 2
             /\ result[p].detail[2] = JNum(response[p].status_code) )

\* C7: when the get_ibm_token call of the Authenticate step raises, after
\* its three attempts and whatever it raises, the request ends with 401
\* "Authentication failed" and no dispatch is made.
C7_AuthenticateFailureIsAuthFailed ==
    \A p \in Procs :
        (acq[p].caller = "auth" /\ acq[p].outcome = "raised")
        => ( /\ dispatches[p] = <<>>
             /\ acq[p].posts = 3
             /\ pc[p] \in {"acq_done", "done"}
             /\ pc[p] = "done"
                => result[p] = HTTPException(401, <<"Authentication failed">>) )

\* C7 witness: the Authenticate step failed on an attempt that the Acquirer
\* itself reports as 500, and the request ended.
C7_Witness ==
    \E p \in Procs :
        /\ pc[p] = "done"
        /\ acq[p].caller = "auth"
        /\ acq[p].outcome = "raised"
        /\ acq[p].error.status_code = 500

\* C8: whenever a get_ibm_token call of a request raises, in the
\* Authenticate step and in the AuthRetry step alike, the request ends with
\* AuthFailed (401).
C8_AcquisitionFailureIsAuthFailed ==
    \A p \in Procs :
        (pc[p] = "done" /\ acq[p].outcome = "raised")
        => ( /\ result[p].type = "HTTPException"
             /\ result[p].status_code = 401 )

\* C9: get_ibm_token returns only non-empty tokens, never stores an empty
\* token in the cache, and no dispatch carries an empty or absent bearer
\* token.
C9_TokenNeverEmpty ==
    /\ token_cache.token # JStr("")
    /\ \A p \in Procs :
          /\ acq[p].outcome = "returned" => acq[p].value \notin {None, JStr("")}
          /\ \A i \in 1..Len(dispatches[p]) :
                dispatches[p][i].authorization \notin {Bearer(None), Bearer(JStr(""))}

\* C10 as stated: a get_ibm_token call that raises does so with 503 when
\* the last attempt failed at the network level and with 500 for any other
\* failure of the attempt.
C10_OnlyNetworkFailureIsUnavailable ==
    \A p \in Procs :
        (pc[p] = "acq_done" /\ acq[p].outcome = "raised")
        => acq[p].error.status_code =
              IF acq[p].exc = "ConnectionError" THEN 503 ELSE 500

\* C10 amended: a get_ibm_token call that raises does so with 503
\* "Authentication service unavailable" when the last attempt failed with a
\* requests exception: a network-level failure, a 4xx or 5xx identity
\* answer, or a body that is not JSON where requests derives its
\* JSONDecodeError from RequestException; and with 500 "Authentication
\* failed" otherwise: a JSON body that is no object or has no access_token,
\* or a body that is not JSON where JSONDecodeError is only a ValueError.
C10_FailureClassification ==
    \A p \in Procs :
        (pc[p] = "acq_done" /\ acq[p].outcome = "raised")
        => /\ acq[p].exc \in {"ConnectionError", "HTTPError", "JSONDecodeError",
                              "KeyError", "TypeError"}
           /\ acq[p].exc \in {"ConnectionError", "HTTPError"}
              => acq[p].error = HTTPException(503, <<"Authentication service unavailable">>)
           /\ acq[p].exc \in {"KeyError", "TypeError"}
              => acq[p].error = HTTPException(500, <<"Authentication failed">>)
           /\ acq[p].exc = "JSONDecodeError"
              => acq[p].error =
                    IF json_error_base = "RequestException"
                    THEN HTTPException(503, <<"Authentication service unavailable">>)
                    ELSE HTTPException(500, <<"Authentication failed">>)

\* C10 witness: the call raised 503 after an identity answer with an error
\* status.
C10_Witness ==
    \E p \in Procs :
        /\ pc[p] = "acq_done"
        /\ acq[p].outcome = "raised"
        /\ acq[p].exc = "HTTPError"
        /\ acq[p].error.status_code = 503

\* C11: health_check never raises, and its result is (healthy, api_ready
\* true) when get_ibm_token returned and (unhealthy, api_ready false) when
\* it raised; (healthy, false) and (unhealthy, true) are never returned.
C11_HealthPairs ==
    \A p \in Procs :
        pc[p] = "health_done"
        => /\ result[p].type = "dict"
           /\ acq[p].outcome = "returned"
              => (result[p].status = "healthy" /\ result[p].api_ready)
           /\ acq[p].outcome = "raised"
              => (result[p].status = "unhealthy" /\ ~result[p].api_ready)
           /\ <<result[p].status, result[p].api_ready>>
                 \in {<<"healthy", TRUE>>, <<"unhealthy", FALSE>>}

\* C12: format_response returns a string for every input: the content of
\* the first choice's message for a body with a non-empty choices array
\* ("No response content" when the content is absent), the string
\* rendering of the whole body when choices is absent or empty, and
\* "Received response but couldn't parse it" for every input that is no
\* object or whose first choice or message is no object.  It is stated on
\* the bodies chat hands to format_response.
C12_FormatResponseTotal ==
    \A p \in Procs :
        ( /\ pc[p] = "done"
          /\ response[p].kind = "http"
          /\ response[p].status_code \in 200..399
          /\ json_loads(response[p].text)[1] = "ok" )
        => LET data == json_loads(response[p].text)[2]
               out == format_response(data)
           IN  /\ out[1] \in {"str", "repr"}
               /\ IF data[1] # "dict"
                  THEN out = JStr("Received response but couldn't parse it")
                  ELSE IF \/ "choices" \notin DOMAIN data[2]
                          \/ data[2].choices = JList(<<>>)
                  THEN out = <<"repr", data>>
                  ELSE LET first == data[2].choices[2][1] IN
                       IF first[1] # "dict"
                       THEN out = JStr("Received response but couldn't parse it")
                       ELSE IF "message" \notin DOMAIN first[2]
                       THEN out = JStr("No response content")
                       ELSE IF first[2].message[1] # "dict"
                       THEN out = JStr("Received response but couldn't parse it")
                       ELSE IF "content" \notin DOMAIN first[2].message[2]
                       THEN out = JStr("No response content")
                       ELSE out = first[2].message[2].content

\* C13: a chat request whose message is empty or whitespace only ends with
\* 400 "Message cannot be empty" before any other step: no get_ibm_token
\* call and no identity request, no dispatch, token_cache unchanged; a
\* request whose message has a character that is no whitespace never ends
\* with 400.
C13_BlankMessageIsBadRequest ==
    /\ [][\A p \in Procs :
            ( /\ pc[p] = "idle"
              /\ pc'[p] # "idle"
              /\ acq'[p].caller # "health"
              /\ \A i \in 1..Len(request'[p].message) :
                    request'[p].message[i] \in {" ", "\t", "\n"} )
            => /\ pc'[p] = "done"
               /\ result'[p] = HTTPException(400, <<"Message cannot be empty">>)
               /\ token_cache' = token_cache
               /\ acq'[p] = NoCall
               /\ dispatches'[p] = <<>>
         ]_vars
    /\ [](\A p \in Procs :
            (pc[p] = "done" /\ result[p].status_code = 400)
            => /\ \A i \in 1..Len(request[p].message) :
                     request[p].message[i] \in {" ", "\t", "\n"}
               /\ acq[p] = NoCall
               /\ dispatches[p] = <<>>)

\* C13 witness: a message of blanks only was rejected with 400.
C13_Witness ==
    \E p \in Procs :
        /\ pc[p] = "done"
        /\ request[p].message = <<" ", "\t">>
        /\ result[p].status_code = 400

\* C14: when the cache holds a non-empty token whose expires_at is later
\* than the current time, a get_ibm_token call, from chat and from
\* health_check alike, returns the cached token at once: it makes no
\* identity request and leaves token and expires_at as they were.
C14_ValidCacheIsServedUnchanged ==
    /\ [][\A p \in Procs :
            ( /\ pc[p] = "acq_lookup"
              /\ pc'[p] # "acq_lookup"
              /\ token_cache.token \notin {None, JStr("")}
              /\ token_cache.expires_at > now )
            => /\ pc'[p] = "acq_done"
               /\ acq'[p].outcome = "returned"
               /\ acq'[p].value = token_cache.token
               /\ acq'[p].posts = acq[p].posts
               /\ token_cache' = token_cache
         ]_vars
    /\ [](\A p \in Procs :
            (pc[p] = "acq_done" /\ acq[p].served)
            => /\ acq[p].posts = 0
               /\ acq[p].outcome = "returned"
               /\ acq[p].value = token_cache.token)

\* C14 witness: health_check's call was served the token an earlier
\* request had cached.
C14_Witness ==
    \E p \in Procs :
        /\ pc[p] = "acq_done"
        /\ acq[p].caller = "health"
        /\ acq[p].served
        /\ acq[p].posts = 0
        /\ acq[p].value = JStr("tokA")

\* C15: an identity exchange that succeeds at time t overwrites the cache
\* with the access token of the response and expires_at = t + 3600, and the
\* call returns exactly the stored token; in executions of one request at a
\* time, whenever the cached token is non-empty (and no call stands between
\* line 88 and line 90), expires_at is the time of the exchange that
\* produced that token plus 3600.
C15_ExpiryFollowsExchange ==
    /\ [][\A p \in Procs :
            (pc[p] = "acq_expiry" /\ pc'[p] = "acq_return")
            => /\ token_cache.token = acq[p].stored
               /\ token_cache' = [token |-> acq[p].stored, expires_at |-> now + 3600]
         ]_vars
    /\ [](\A p \in Procs :
            (pc[p] = "acq_done" /\ acq[p].outcome = "returned" /\ ~acq[p].served)
            => /\ acq[p].value = acq[p].stored
               /\ token_cache.token = acq[p].stored
               /\ refresh.token = acq[p].stored
               /\ token_cache.expires_at = refresh.at + 3600)
    /\ []( ( /\ token_cache.token \notin {None, JStr("")}
             /\ \A p \in Procs : pc[p] # "acq_expiry" )
           => /\ refresh.token = token_cache.token
              /\ refresh.at <= now
              /\ token_cache.expires_at = refresh.at + 3600 )

\* C15 witness: a token stored by an exchange later than the start is
\* cached with the expires_at of that exchange and was returned by the call.
C15_Witness ==
    \E p \in Procs :
        /\ pc[p] = "acq_done"
        /\ acq[p].outcome = "returned"
        /\ acq[p].value = JStr("tokB")
        /\ ~acq[p].served
        /\ refresh.at > StartTime
        /\ token_cache = [token |-> JStr("tokB"), expires_at |-> refresh.at + 3600]

\* C16: a network-level failure of an inference dispatch, the first one or
\* the retry, ends the request with 503 "Service unavailable"; the dispatch
\* is not repeated, and the failure does not clear the cached token.
C16_DispatchNetworkFailureIsUnavailable ==
    /\ [][\A p \in Procs :
            ( /\ Len(dispatches'[p]) = Len(dispatches[p]) + 1
              /\ dispatches'[p][Len(dispatches'[p])].kind = "neterr" )
            => /\ pc'[p] = "done"
               /\ result'[p] = HTTPException(503, <<"Service unavailable">>)
               /\ token_cache' = token_cache
         ]_vars
    /\ [](\A p \in Procs : \A i \in 1..Len(dispatches[p]) :
            dispatches[p][i].kind = "neterr"
            => /\ i = Len(dispatches[p])
               /\ pc[p] = "done"
               /\ result[p].status_code = 503)

\* C16 witness: the retry dispatch failed at the network level and the
\* token acquired for it is still cached.
C16_Witness ==
    \E p \in Procs :
        /\ pc[p] = "done"
        /\ Len(dispatches[p]) = 2
        /\ dispatches[p][2].kind = "neterr"
        /\ result[p].status_code = 503
        /\ token_cache.token = JStr("tokA")

\* C17: when the last dispatch is answered 2xx, a body that is no JSON ends
\* the request with 502 "Invalid response from service", and every body
\* that parses as JSON ends it with a success result whose status is
\* "success" and whose response is what format_response makes of the body.
C17_ParsedBodyIsSuccess ==
    \A p \in Procs :
        ( /\ pc[p] = "done"
          /\ dispatches[p] # <<>>
          /\ dispatches[p][Len(dispatches[p])].kind = "http"
          /\ dispatches[p][Len(dispatches[p])].status_code \in 200..299 )
        => IF json_loads(response[p].text)[1] = "ok"
           THEN /\ result[p].type = "ChatResponse"
                /\ result[p].status = "success"
                /\ result[p].response = format_response(json_loads(response[p].text)[2])
           ELSE result[p] = HTTPException(502, <<"Invalid response from service">>)

\* C18: every dispatch sends a payload with exactly one message turn, of
\* role "user" and with the original message as content, the fixed project
\* id and the fixed parameters, to the streaming endpoint exactly when the
\* request's stream is true; the retry dispatch goes to the same endpoint
\* with the same payload and differs from the first in the bearer token
\* only.
C18_DispatchShape ==
    \A p \in Procs :
        /\ \A i \in 1..Len(dispatches[p]) :
              /\ Len(dispatches[p][i].payload.messages) = 1
              /\ dispatches[p][i].payload.messages[1] =
                    [role |-> "user", content |-> request[p].message]
              /\ dispatches[p][i].payload.project_id = "your_PROJECT_ID"
              /\ dispatches[p][i].payload.parameters =
                    [max_new_tokens |-> 200, temperature |-> "0.7", top_p |-> "0.9",
                     repetition_penalty |-> "1.1"]
              /\ DOMAIN dispatches[p][i].payload = {"messages", "project_id", "parameters"}
              /\ dispatches[p][i].endpoint = "ai_service_stream" <=> request[p].stream
              /\ dispatches[p][i].endpoint = "ai_service" <=> ~request[p].stream
              /\ dispatches[p][i].authorization[1] = "Bearer "
        /\ Len(dispatches[p]) = 2
           => /\ dispatches[p][2].endpoint = dispatches[p][1].endpoint
              /\ dispatches[p][2].payload = dispatches[p][1].payload

\* C18 witness: a streaming request dispatched twice, with two different
\* bearer tokens.
C18_Witness ==
    \E p \in Procs :
        /\ Len(dispatches[p]) = 2
        /\ request[p].stream
        /\ dispatches[p][1].endpoint = "ai_service_stream"
        /\ dispatches[p][1].authorization = Bearer(JStr("tokA"))
        /\ dispatches[p][2].authorization = Bearer(JStr("tokB"))

(***************************************************************************)
(* A host that runs handlers on concurrent threads: a request is accepted  *)
(* while another one is running, and the handlers interleave at every      *)
(* read and write of token_cache and at every network call.                *)
(***************************************************************************)
\* what the two requests and the two services do in these executions
ConcMessages == { <<" ", "h", " ", "i", "\n">> }
ConcIdentityResponses ==
    { NetworkFailure,
      HttpResponse(200, "{\"access_token\":\"tokA\"}"),
      HttpResponse(200, "{\"access_token\":\"tokB\"}") }
ConcInferenceResponses ==
    { HttpResponse(401, ""),
      HttpResponse(200, "{\"choices\":[{\"message\":{\"content\":\"hi\"}}]}") }

ConcStart(p) == \E m \in ConcMessages : ChatStartWith(p, m, FALSE)
ConcAcqPost(p) == \E r \in ConcIdentityResponses : AcqPostAnswered(p, r)
ConcDispatch(p) == \E r \in ConcInferenceResponses : ChatDispatchAnswered(p, r)
ConcRedispatch(p) == \E r \in ConcInferenceResponses : ChatRedispatchAnswered(p, r)

ConcNext ==
    \/ Tick
    \/ \E p \in Procs :
          \/ ConcStart(p)
          \/ AcqLookup(p)
          \/ ConcAcqPost(p)
          \/ AcqExpiry(p)
          \/ AcqReturn(p)
          \/ AcqRetry(p)
          \/ ChatAuthenticate(p)
          \/ ConcDispatch(p)
          \/ ChatReauthenticate(p)
          \/ ConcRedispatch(p)
          \/ ChatReturn(p)

ConcSpec == Init /\ [][ConcNext]_vars

C20_FailedAttemptLeavesCache ==
    /\ [][\A p \in Procs :
            /\ (pc[p] = "acq_post" /\ pc'[p] = "acq_failed")
               => token_cache' = token_cache
            /\ (pc[p] = "dispatch" /\ pc'[p] = "acq_lookup")
               => token_cache' = [token |-> None, expires_at |-> token_cache.expires_at]
         ]_vars
    /\ [](\A p \in Procs :
            /\ pc[p] = "acq_failed"
               => /\ token_cache = acq[p].entry
                  /\ acq[p].exc \in {"ConnectionError", "HTTPError", "JSONDecodeError",
                                     "KeyError", "TypeError"}
            /\ acq[p].outcome = "raised" => token_cache = acq[p].entry
            /\ (pc[p] = "done" /\ acq[p].caller = "retry" /\ acq[p].outcome = "raised")
               => token_cache.token = None)

\* C20 witness: the re-acquisition failed on a missing access_token, and
\* the cache holds the cleared token with the expires_at of the refresh
\* before the 401.
C20_Witness ==
    \E p \in Procs :
        /\ pc[p] = "done"
        /\ acq[p].caller = "retry"
        /\ acq[p].outcome = "raised"
        /\ acq[p].exc = "KeyError"
        /\ token_cache.token = None
        /\ token_cache.expires_at = refresh.at + 3600
        /\ refresh.token = JStr("tokA")

====
